---- MODULE Spec2Model ----
(***************************************************************************)
(* State-machine model of the FullPage component (src/lib/FullPage.tsx).   *)
(*                                                                         *)
(* React state and closures.  currentPage and isScrolling are the two      *)
(* useState cells; a setState call replaces the cell's value at once (the  *)
(* queued update is a plain value, so the value the next render will see   *)
(* is known as soon as the call is made).  The callbacks of the component  *)
(* (scrollToPage, next, prev, goTo, the wheel and key handlers, the drag   *)
(* handlers) are closures over the values of the render that created       *)
(* them: `view` is that snapshot.  It is refreshed only by Render.  The    *)
(* window listeners that onMouseDown registers keep the closures of the    *)
(* render in which the button went down (mouseListeners), and a frame      *)
(* callback keeps the closure of the handler that requested it (rafRef).   *)
(*                                                                         *)
(* Time.  One Tick is TickMs milliseconds.  A timer is the number of ticks *)
(* left until it is due.  Lengths along the axis are pixels; currentDelta  *)
(* and the pixel part of the transform are kept in hundredths of a pixel   *)
(* (Scale), so that the 0.35 resistance factor stays exact.                *)
(***************************************************************************)
EXTENDS Integers, Sequences, FiniteSets, TLC

\* ------------------------------------------------------------------ bounds
count == 3              \* number of <Section> children (slides.length)
duration == 2           \* the duration prop, in ticks
TickMs == 100           \* milliseconds per tick
MaxTimers == 2          \* pending setTimeout callbacks kept by the model
MaxAge == 2             \* ticks after which the age of startTime saturates
MaxMouseListeners == 1  \* mousemove/mouseup listener pairs on window
viewportSize == 400     \* window.innerHeight / window.innerWidth

\* --------------------------------------------------------- program constants
wheelThreshold == 30
minFlickDistance == 30
velocityThresholdPct == 35   \* 0.35 px/ms, in hundredths
thresholdPct == 15           \* 0.15 of the viewport, in hundredths
resistancePct == 35          \* 0.35, in hundredths
Scale == 100                 \* hundredths of a pixel per pixel

\* ------------------------------------------------------------------ inputs
Targets == -1 .. count + 1
WheelDeltas == {-31, -30, 0, 30, 31}
Keys == {"ArrowDown", "PageDown", " ", "ArrowUp", "PageUp",
         "ArrowLeft", "ArrowRight", "Enter"}
Coords == {100, 260}
CrossCoord == 7
NoPos == [x |-> -1, y |-> -1]

VARIABLES
  currentPage,        \* useState(0)
  isScrolling,        \* useState(false)
  view,               \* [currentPage, isScrolling] closed over by the last render
  timers,             \* pending lock-release timers: ticks until due, oldest first
  sinceCommit,        \* ticks since the last setCurrentPage, saturating at duration
  isDragging,         \* isDragging.current
  startPos,           \* startPos.current
  sinceStart,         \* Date.now() - startTime.current in ticks, saturating at MaxAge
  currentDelta,       \* currentDelta.current, in hundredths of a pixel
  rafRef,             \* <<>>, or <<p>>: a frame callback whose closure has currentPage p
  latestDragPos,      \* latestDragPos.current (NoPos for null)
  mouseListeners,     \* closures of the window mousemove/mouseup listeners
  transform,          \* innerRef.current.style.transform: [page, delta]
  transitionDuration, \* innerRef.current.style.transitionDuration, in ticks
  innerRef,           \* whether innerRef.current is an element
  isVertical,         \* direction === "vertical"
  last,               \* observer: the last handler, its scrollToPage call, the
                      \* onLeave calls it made and the timers it scheduled
  event               \* observer: the DOM event the last handler was given, or
                      \* the useFullPage call of the last step and its outcome

nav == <<currentPage, isScrolling, timers, sinceCommit>>
drag == <<isDragging, startPos, sinceStart, currentDelta, rafRef, latestDragPos>>
dom == <<transform, transitionDuration>>
config == <<innerRef, isVertical>>
vars == <<nav, view, drag, mouseListeners, dom, config, last, event>>

\* last.target when the handler made no scrollToPage call.
NoTarget == -2

\* last after a step that is no navigation request.
Idle == [op |-> "idle", target |-> NoTarget, fired |-> <<>>, sched |-> 0]

\* last in a behaviour whose handler calls are not recorded.
Off == [op |-> "off", target |-> NoTarget, fired |-> <<>>, sched |-> 0]

\* The recorder: last takes the record r, unless recording is off.
Rec(r) == IF last = Off THEN Off ELSE r

\* The outcome of a hook call that was not made.
NoResult == [threw |-> FALSE, value |-> <<>>]

\* event after a step that handles no DOM event and calls no hook.
NoEvent ==
  [type |-> "none", deltaX |-> 0, deltaY |-> 0, key |-> "", point |-> NoPos,
   interactive |-> FALSE, provider |-> FALSE, result |-> NoResult,
   page |-> NoTarget]

WheelEvent(deltaX, deltaY) ==
  [NoEvent EXCEPT !.type = "wheel", !.deltaX = deltaX, !.deltaY = deltaY]

KeyboardEvent(key) == [NoEvent EXCEPT !.type = "keydown", !.key = key]

\* A mouse or touch event at the point p; interactive tells whether its target
\* has a button, a, input or textarea ancestor.
PointerEvent(type, p, interactive) ==
  [NoEvent EXCEPT !.type = type, !.point = p, !.interactive = interactive]

\* A useFullPage call made inside (provider) or outside a FullPage, and its
\* outcome.
HookCall(provider, result) ==
  [NoEvent EXCEPT !.type = "useFullPage", !.provider = provider,
                  !.result = result]

\* onLeave called for the first time by a handler; page is the argument of the
\* goTo call it makes.
LeaveEvent(page) == [NoEvent EXCEPT !.type = "onLeave", !.page = page]

\* The recorder: event takes the record e, unless recording is off.
Ev(e) == IF last = Off THEN NoEvent ELSE e

\* Whether the onLeave prop is supplied.
onLeave == TRUE

Snapshot == [currentPage |-> currentPage, isScrolling |-> isScrolling]

Resting(page) == [page |-> page, delta |-> 0]

Abs(n) == IF n < 0 THEN -n ELSE n

Min(a, b) == IF a < b THEN a ELSE b

Max(a, b) == IF a > b THEN a ELSE b

\* ------------------------------------------------------ the page controller

\* The record of one onLeave call: its arguments, and the state cells as they
\* stand when it is called.
LeaveCall(v, targetPage) ==
  [origin |-> v.currentPage, destination |-> targetPage,
   page |-> currentPage, lock |-> isScrolling]

\* Rejects without the upper range check.
RejectsNoUpperBound(v, targetPage) ==
  \/ targetPage < 0
  \/ v.isScrolling

\* Rejects without the lower range check.
RejectsNoLowerBound(v, targetPage) ==
  \/ targetPage >= count
  \/ v.isScrolling

\* The two early returns of scrollToPage, read from the closure v.
Rejects(v, targetPage) ==
  \/ targetPage < 0
  \/ targetPage >= count
  \/ v.isScrolling

\* scrollToPage(targetPage) of the closure v; op and arg name the caller.
scrollToPage(v, targetPage, op) ==
  IF Rejects(v, targetPage)
  THEN /\ UNCHANGED nav
       /\ last' = Rec([op |-> op, target |-> targetPage, fired |-> <<>>, sched |-> 0])
  ELSE /\ Len(timers) < MaxTimers
       /\ isScrolling' = TRUE
       /\ currentPage' = targetPage
       /\ timers' = Append(timers, duration)
       /\ sinceCommit' = 0
       /\ last' = Rec([op |-> op, target |-> targetPage,
                       fired |-> IF onLeave THEN <<LeaveCall(v, targetPage)>> ELSE <<>>,
                       sched |-> 1])

\* A handler that returns without calling scrollToPage.
NoCall(op) ==
  /\ UNCHANGED nav
  /\ last' = Rec([op |-> op, target |-> NoTarget, fired |-> <<>>, sched |-> 0])

next(v, op) == scrollToPage(v, v.currentPage + 1, op)

prev(v, op) == scrollToPage(v, v.currentPage - 1, op)

goTo(v, page, op) == scrollToPage(v, page, op)

\* The imperative handle and the context value hold the last render's closures.
CallNext ==
  /\ next(view, "next")
  /\ event' = Ev(NoEvent)
  /\ UNCHANGED <<view, drag, mouseListeners, dom, config>>

CallPrev ==
  /\ prev(view, "prev")
  /\ event' = Ev(NoEvent)
  /\ UNCHANGED <<view, drag, mouseListeners, dom, config>>

CallGoTo ==
  \E page \in Targets :
    /\ goTo(view, page, "goTo")
    /\ event' = Ev(NoEvent)
    /\ UNCHANGED <<view, drag, mouseListeners, dom, config>>

\* scrollToPage(targetPage) of the closure v, with an onLeave prop that calls
\* goTo(page) of the same render when it is called for the first time.  The
\* inner call runs to its end inside the outer onLeave, before the outer call
\* reaches its setters: the outer setCurrentPage is the last one.
scrollToPageLeaveCalls(v, targetPage, page, op) ==
  IF Rejects(v, targetPage)
  THEN /\ UNCHANGED nav
       /\ last' = Rec([op |-> op, target |-> targetPage, fired |-> <<>>, sched |-> 0])
  ELSE LET inner == IF Rejects(v, page) THEN <<>> ELSE <<LeaveCall(v, page)>>
       IN  /\ Len(timers) + Len(inner) < MaxTimers
           /\ isScrolling' = TRUE
           /\ currentPage' = targetPage
           /\ timers' = timers \o [i \in 1 .. Len(inner) + 1 |-> duration]
           /\ sinceCommit' = 0
           /\ last' = Rec([op |-> op, target |-> targetPage,
                           fired |-> <<LeaveCall(v, targetPage)>> \o inner,
                           sched |-> Len(inner) + 1])

\* goTo(targetPage) from outside, whose onLeave calls goTo(page).
GoToInLeave ==
  \E targetPage \in Targets, page \in Targets :
    /\ scrollToPageLeaveCalls(view, targetPage, page, "goToInLeave")
    /\ event' = Ev(LeaveEvent(page))
    /\ UNCHANGED <<view, drag, mouseListeners, dom, config>>

\* --------------------------------------------------- discrete input adapters

\* WheelDelta that always takes deltaY.
WheelDeltaAlwaysY(deltaX, deltaY) == deltaY

WheelDelta(deltaX, deltaY) ==
  IF isVertical THEN deltaY
  ELSE IF deltaX # 0 THEN deltaX ELSE deltaY

\* handleWheel without the isDragging test.
handleWheelWhileDragging(v, deltaX, deltaY) ==
  LET delta == WheelDelta(deltaX, deltaY)
  IN  IF v.isScrolling THEN NoCall("wheel")
      ELSE IF delta > wheelThreshold THEN next(v, "wheel")
      ELSE IF delta < -wheelThreshold THEN prev(v, "wheel")
      ELSE NoCall("wheel")

handleWheel(v, deltaX, deltaY) ==
  LET delta == WheelDelta(deltaX, deltaY)
  IN  IF isDragging THEN NoCall("wheel")
      ELSE IF v.isScrolling THEN NoCall("wheel")
      ELSE IF delta > wheelThreshold THEN next(v, "wheel")
      ELSE IF delta < -wheelThreshold THEN prev(v, "wheel")
      ELSE NoCall("wheel")

Wheel ==
  \E deltaX \in WheelDeltas, deltaY \in WheelDeltas :
    /\ handleWheel(view, deltaX, deltaY)
    /\ event' = Ev(WheelEvent(deltaX, deltaY))
    /\ UNCHANGED <<view, drag, mouseListeners, dom, config>>

\* nextKeys with ArrowRight on both axes.
nextKeysWithArrowRight == {"ArrowRight", "ArrowDown", "PageDown", " "}

nextKeys ==
  IF isVertical THEN {"ArrowDown", "PageDown", " "}
  ELSE {"ArrowRight", "ArrowDown", "PageDown", " "}

prevKeys ==
  IF isVertical THEN {"ArrowUp", "PageUp"}
  ELSE {"ArrowLeft", "ArrowUp", "PageUp"}

handleKeyDown(v, key) ==
  IF isDragging THEN NoCall("key")
  ELSE IF key \in nextKeys THEN next(v, "key")
  ELSE IF key \in prevKeys THEN prev(v, "key")
  ELSE NoCall("key")

KeyDown ==
  \E key \in Keys :
    /\ handleKeyDown(view, key)
    /\ event' = Ev(KeyboardEvent(key))
    /\ UNCHANGED <<view, drag, mouseListeners, dom, config>>

\* ------------------------------------------------------- the gesture tracker

\* The pointer positions the model delivers: the axis coordinate ranges over
\* Coords, the other coordinate is CrossCoord.
Points ==
  {p \in [x : Coords \cup {CrossCoord}, y : Coords \cup {CrossCoord}] :
     IF isVertical THEN p.x = CrossCoord /\ p.y \in Coords
     ELSE p.y = CrossCoord /\ p.x \in Coords}

AxisPos(p) == IF isVertical THEN p.y ELSE p.x

\* handleDragStart that leaves the transition duration as it is.
handleDragStartKeepsTransition(v, p, interactive) ==
  IF v.isScrolling \/ interactive
  THEN UNCHANGED <<drag, dom>>
  ELSE /\ isDragging' = TRUE
       /\ startPos' = AxisPos(p)
       /\ sinceStart' = 0
       /\ currentDelta' = 0
       /\ latestDragPos' = p
       /\ UNCHANGED <<rafRef, transform, transitionDuration>>

\* interactive: the target has a button, a, input or textarea ancestor.
handleDragStart(v, p, interactive) ==
  IF v.isScrolling \/ interactive
  THEN UNCHANGED <<drag, dom>>
  ELSE /\ isDragging' = TRUE
       /\ startPos' = AxisPos(p)
       /\ sinceStart' = 0
       /\ currentDelta' = 0
       /\ latestDragPos' = p
       /\ transitionDuration' = IF innerRef THEN 0 ELSE transitionDuration
       /\ UNCHANGED <<rafRef, transform>>

\* delta * 0.35 at an exhausted edge, delta otherwise; in hundredths of a pixel.
EffectiveDelta(page, delta) ==
  IF \/ page = 0 /\ delta > 0
     \/ page = count - 1 /\ delta < 0
  THEN delta * resistancePct
  ELSE delta * Scale

\* The frame callback; page is the currentPage of the closure that requested
\* it.
updateDragVisuals(page) ==
  IF ~isDragging \/ latestDragPos = NoPos \/ ~innerRef
  THEN /\ rafRef' = <<>>
       /\ UNCHANGED <<isDragging, startPos, sinceStart, currentDelta,
                      latestDragPos, dom>>
  ELSE LET delta == AxisPos(latestDragPos) - startPos
           effectiveDelta == EffectiveDelta(page, delta)
       IN  /\ currentDelta' = effectiveDelta
           /\ transform' = [page |-> page, delta |-> effectiveDelta]
           /\ rafRef' = <<>>
           /\ UNCHANGED <<isDragging, startPos, sinceStart, latestDragPos,
                          transitionDuration>>

\* handleDragMove that keeps the stored coordinate while a frame is pending.
handleDragMoveDropsSample(c, p) ==
  IF ~isDragging
  THEN UNCHANGED <<drag, dom>>
  ELSE /\ latestDragPos' = IF rafRef = <<>> THEN p ELSE latestDragPos
       /\ rafRef' = IF rafRef = <<>> THEN <<c.currentPage>> ELSE rafRef
       /\ UNCHANGED <<isDragging, startPos, sinceStart, currentDelta, dom>>

handleDragMove(c, p) ==
  IF ~isDragging
  THEN UNCHANGED <<drag, dom>>
  ELSE /\ latestDragPos' = p
       /\ rafRef' = IF rafRef = <<>> THEN <<c.currentPage>> ELSE rafRef
       /\ UNCHANGED <<isDragging, startPos, sinceStart, currentDelta, dom>>

\* timeElapsed || 1, in milliseconds.
TimeElapsed == IF sinceStart * TickMs = 0 THEN 1 ELSE sinceStart * TickMs

isValidFlick(delta) ==
  /\ Abs(delta) > velocityThresholdPct * TimeElapsed
  /\ Abs(delta) > minFlickDistance * Scale

isPastThreshold(delta) == Abs(delta) > thresholdPct * viewportSize

\* Where handleDragEnd sends the gesture: a page for scrollToPage, or NoTarget
\* for resetPosition.
DragTarget(c, delta) ==
  IF isPastThreshold(delta) \/ isValidFlick(delta)
  THEN IF delta < 0 /\ c.currentPage < count - 1 THEN c.currentPage + 1
       ELSE IF delta > 0 /\ c.currentPage > 0 THEN c.currentPage - 1
       ELSE NoTarget
  ELSE NoTarget

resetPosition(c) ==
  transform' = IF innerRef THEN Resting(c.currentPage) ELSE transform

\* handleDragEnd that leaves a pending frame requested.
handleDragEndKeepsFrame(c, op) ==
  IF ~isDragging
  THEN /\ NoCall(op)
       /\ UNCHANGED <<drag, dom>>
  ELSE /\ isDragging' = FALSE
       /\ transitionDuration' = IF innerRef THEN duration ELSE transitionDuration
       /\ UNCHANGED <<startPos, sinceStart, currentDelta, rafRef, latestDragPos>>
       /\ LET target == DragTarget(c, currentDelta)
          IN  IF target # NoTarget
              THEN /\ scrollToPage(c, target, op)
                   /\ UNCHANGED transform
              ELSE /\ resetPosition(c)
                   /\ NoCall(op)

handleDragEnd(c, op) ==
  IF ~isDragging
  THEN /\ NoCall(op)
       /\ UNCHANGED <<drag, dom>>
  ELSE /\ isDragging' = FALSE
       /\ rafRef' = <<>>
       /\ transitionDuration' = IF innerRef THEN duration ELSE transitionDuration
       /\ UNCHANGED <<startPos, sinceStart, currentDelta, latestDragPos>>
       /\ LET target == DragTarget(c, currentDelta)
          IN  IF target # NoTarget
              THEN /\ scrollToPage(c, target, op)
                   /\ UNCHANGED transform
              ELSE /\ resetPosition(c)
                   /\ NoCall(op)

\* onMouseDown: handleDragStart, then the window listeners of this render.
MouseDown ==
  \E p \in Points, interactive \in BOOLEAN :
    /\ \/ \E i \in 1 .. Len(mouseListeners) : mouseListeners[i] = view
       \/ Len(mouseListeners) < MaxMouseListeners
    /\ handleDragStart(view, p, interactive)
    /\ mouseListeners' =
         IF \E i \in 1 .. Len(mouseListeners) : mouseListeners[i] = view
         THEN mouseListeners ELSE Append(mouseListeners, view)
    /\ UNCHANGED nav
    /\ last' = Rec(Idle)
    /\ event' = Ev(PointerEvent("mousedown", p, interactive))
    /\ UNCHANGED <<view, config>>

\* mousemove on window: the listeners run in the order they were added; only
\* the first can find rafRef null.
MouseMove ==
  \E p \in Points :
    /\ mouseListeners # <<>>
    /\ handleDragMove(Head(mouseListeners), p)
    /\ UNCHANGED nav
    /\ last' = Rec(Idle)
    /\ event' = Ev(PointerEvent("mousemove", p, FALSE))
    /\ UNCHANGED <<view, mouseListeners, config>>

\* mouseup on window: the first listener finds the gesture, the others find
\* isDragging false; each removes itself.
MouseUp ==
  /\ mouseListeners # <<>>
  /\ handleDragEnd(Head(mouseListeners), "mouseUp")
  /\ mouseListeners' = <<>>
  /\ event' = Ev(PointerEvent("mouseup", NoPos, FALSE))
  /\ UNCHANGED <<view, config>>

TouchStart ==
  \E p \in Points, interactive \in BOOLEAN :
    /\ handleDragStart(view, p, interactive)
    /\ UNCHANGED nav
    /\ last' = Rec(Idle)
    /\ event' = Ev(PointerEvent("touchstart", p, interactive))
    /\ UNCHANGED <<view, mouseListeners, config>>

TouchMove ==
  \E p \in Points :
    /\ handleDragMove(view, p)
    /\ UNCHANGED nav
    /\ last' = Rec(Idle)
    /\ event' = Ev(PointerEvent("touchmove", p, FALSE))
    /\ UNCHANGED <<view, mouseListeners, config>>

TouchEnd ==
  /\ handleDragEnd(view, "touchEnd")
  /\ event' = Ev(PointerEvent("touchend", NoPos, FALSE))
  /\ UNCHANGED <<view, mouseListeners, config>>

\* The browser runs the requested frame callback.
Frame ==
  /\ rafRef # <<>>
  /\ updateDragVisuals(rafRef[1])
  /\ UNCHANGED nav
  /\ last' = Rec(Idle)
  /\ event' = Ev(NoEvent)
  /\ UNCHANGED <<view, mouseListeners, config>>

\* The value of FullPageContext.Provider: the state and the closures of the
\* last render.
contextValue ==
  [currentPage |-> view.currentPage,
   count |-> count,
   isScrolling |-> view.isScrolling,
   direction |-> IF isVertical THEN "vertical" ELSE "horizontal"]

\* useContext(FullPageContext): <<>> for undefined, the default value.
useContext(provider) == IF provider THEN <<contextValue>> ELSE <<>>

\* useFullPage that returns whatever useContext gave.
useFullPageUnchecked(context) == [threw |-> FALSE, value |-> context]

useFullPage(context) ==
  IF context = <<>>
  THEN [threw |-> TRUE, value |-> <<>>]
  ELSE [threw |-> FALSE, value |-> context]

\* A component rendered inside (provider) or outside a FullPage calls
\* useFullPage.
UseFullPage ==
  \E provider \in BOOLEAN :
    /\ event' = Ev(HookCall(provider, useFullPage(useContext(provider))))
    /\ last' = Rec(Idle)
    /\ UNCHANGED <<nav, view, drag, mouseListeners, dom, config>>

\* A timer callback that leaves the lock as it is.
TimerFireKeepsLock ==
  /\ timers # <<>>
  /\ Head(timers) = 0
  /\ timers' = Tail(timers)
  /\ last' = Rec(Idle)
  /\ event' = Ev(NoEvent)
  /\ UNCHANGED <<currentPage, isScrolling, sinceCommit, view, drag,
                 mouseListeners, dom, config>>

\* The setTimeout callback of scrollToPage.
TimerFire ==
  /\ timers # <<>>
  /\ Head(timers) = 0
  /\ timers' = Tail(timers)
  /\ isScrolling' = FALSE
  /\ last' = Rec(Idle)
  /\ event' = Ev(NoEvent)
  /\ UNCHANGED <<currentPage, sinceCommit, view, drag, mouseListeners, dom, config>>

\* A re-render after a state change: new closures; React writes the transform
\* style when its value changed, and the [direction, currentPage] effect runs
\* resetPosition.
Render ==
  /\ view # Snapshot
  /\ view' = Snapshot
  /\ transform' = IF innerRef /\ view.currentPage # currentPage
                  THEN Resting(currentPage) ELSE transform
  /\ last' = Rec(Idle)
  /\ event' = Ev(NoEvent)
  /\ UNCHANGED <<nav, drag, mouseListeners, transitionDuration, config>>

\* TickMs milliseconds pass.  A due timer runs first, and so does a pending
\* re-render.
Tick ==
  /\ view = Snapshot
  /\ \A i \in 1 .. Len(timers) : timers[i] > 0
  /\ timers' = [i \in 1 .. Len(timers) |-> timers[i] - 1]
  /\ sinceCommit' = Min(sinceCommit + 1, duration)
  /\ sinceStart' = Min(sinceStart + 1, MaxAge)
  /\ \/ timers # <<>>
     \/ sinceCommit < duration
     \/ sinceStart < MaxAge
  /\ last' = Rec(Idle)
  /\ event' = Ev(NoEvent)
  /\ UNCHANGED <<currentPage, isScrolling, view, isDragging, startPos, currentDelta,
                 rafRef, latestDragPos, mouseListeners, dom, config>>

\* The state after the first render.
Start ==
  /\ currentPage = 0
  /\ isScrolling = FALSE
  /\ view = [currentPage |-> 0, isScrolling |-> FALSE]
  /\ timers = <<>>
  /\ sinceCommit = duration
  /\ isDragging = FALSE
  /\ startPos = 0
  /\ sinceStart = MaxAge
  /\ currentDelta = 0
  /\ rafRef = <<>>
  /\ latestDragPos = NoPos
  /\ mouseListeners = <<>>
  /\ transform = Resting(0)
  /\ transitionDuration = duration
  /\ innerRef \in BOOLEAN
  /\ isVertical \in BOOLEAN
  /\ event = NoEvent

Init ==
  /\ Start
  /\ last = Off

\* The same, with the handler calls recorded in last.
InitRec ==
  /\ Start
  /\ last = Idle

Next ==
  \/ CallNext
  \/ CallPrev
  \/ CallGoTo
  \/ Wheel
  \/ KeyDown
  \/ MouseDown
  \/ MouseMove
  \/ MouseUp
  \/ TouchStart
  \/ TouchMove
  \/ TouchEnd
  \/ Frame
  \/ UseFullPage
  \/ TimerFire
  \/ Render
  \/ Tick

\* Every input source, with an onLeave that does not call back into the
\* component (SpecLeave has the one that does); handler calls not recorded.
Spec == Init /\ [][Next]_vars

\* The navigation API, the wheel and the keyboard, with the handler calls
\* recorded in last.
NextApi ==
  \/ CallNext
  \/ CallPrev
  \/ CallGoTo
  \/ Wheel
  \/ KeyDown
  \/ TimerFire
  \/ Render
  \/ Tick

SpecApi == InitRec /\ [][NextApi]_vars

\* next() and prev() alone, each call made when no lock-release timer is
\* pending.
NextSeq ==
  \/ timers = <<>> /\ CallNext
  \/ timers = <<>> /\ CallPrev
  \/ TimerFire
  \/ Render
  \/ Tick

SpecSeq == InitRec /\ [][NextSeq]_vars

\* The browser runs a due timer, React runs a pending render, time passes.
Fairness ==
  /\ WF_vars(TimerFire)
  /\ WF_vars(Render)
  /\ WF_vars(Tick)

LiveSpec == InitRec /\ [][NextApi]_vars /\ Fairness

\* next() alone, at any time.
NextOnly ==
  \/ CallNext
  \/ TimerFire
  \/ Render
  \/ Tick

SpecNextOnly == InitRec /\ [][NextOnly]_vars

\* Mouse gestures, with next() called from outside at any time.
NextMouseNext ==
  \/ MouseDown
  \/ MouseMove
  \/ MouseUp
  \/ CallNext
  \/ Frame
  \/ TimerFire
  \/ Render
  \/ Tick

SpecMouseNext == InitRec /\ [][NextMouseNext]_vars

\* Touch gestures, the wheel and the keyboard.
NextTouchInput ==
  \/ TouchStart
  \/ TouchMove
  \/ TouchEnd
  \/ Wheel
  \/ KeyDown
  \/ Frame
  \/ TimerFire
  \/ Render
  \/ Tick

SpecTouchInput == InitRec /\ [][NextTouchInput]_vars

\* Components that call useFullPage, while next() and prev() turn the pages.
NextHook ==
  \/ UseFullPage
  \/ CallNext
  \/ CallPrev
  \/ TimerFire
  \/ Render
  \/ Tick

SpecHook == InitRec /\ [][NextHook]_vars

\* Touch gestures, with next() called from outside at any time.
NextTouchNext ==
  \/ TouchStart
  \/ TouchMove
  \/ TouchEnd
  \/ CallNext
  \/ Frame
  \/ TimerFire
  \/ Render
  \/ Tick

SpecTouchNext == InitRec /\ [][NextTouchNext]_vars

\* goTo() from outside, with and without an onLeave that calls goTo().
NextLeave ==
  \/ GoToInLeave
  \/ CallGoTo
  \/ TimerFire
  \/ Render
  \/ Tick

SpecLeave == InitRec /\ [][NextLeave]_vars

\* ------------------------------------------------------------------ claims

\* The step made no transition: the page, the lock and the pending timers are
\* as before, onLeave was not called and no timer was scheduled.
Dropped ==
  /\ currentPage' = currentPage
  /\ isScrolling' = isScrolling
  /\ timers' = timers
  /\ last'.fired = <<>>
  /\ last'.sched = 0

\* C1: while the lock is held no request commits a transition: the page stays,
\* onLeave is not called and no further lock-release timer is scheduled.
C1_NoCommitWhileLocked ==
  [][isScrolling =>
       /\ currentPage' = currentPage
       /\ last'.fired = <<>>
       /\ last'.sched = 0]_vars

\* C2: currentPage is a page index, 0 .. count-1, in every reachable state.
C2_PageInRange == currentPage \in 0 .. count - 1

\* A drag on the last page that pulls toward the missing next page, with the
\* mouse listeners still attached.
C2_Witness ==
  /\ currentPage = count - 1
  /\ isDragging
  /\ currentDelta < 0
  /\ mouseListeners # <<>>

\* C3: goTo with a target below 0 or at or above count changes neither the page
\* nor the lock, calls no onLeave and schedules no timer.
C3_OutOfRangeGoToIsNoOp ==
  [][(last'.op = "goTo" /\ (last'.target < 0 \/ last'.target >= count))
       => Dropped]_vars

\* An out-of-range goTo made through an unlocked closure, on a page other than
\* the first.
C3_Witness ==
  /\ last.op = "goTo"
  /\ last.target \in {-1, count, count + 1}
  /\ ~view.isScrolling
  /\ currentPage > 0

\* C4: onLeave is called exactly once by a handler that commits a transition
\* and not at all by one that commits none; it is called with the current page
\* as origin and the page the handler leaves behind as destination, and it
\* sees the page and the lock as they were before the handler ran.
C4_OnLeaveOncePerCommit ==
  [][/\ last'.sched = 1 => Len(last'.fired) = 1
     /\ last'.sched = 0 => last'.fired = <<>>
     /\ \A i \in 1 .. Len(last'.fired) :
          /\ last'.fired[i].origin = currentPage
          /\ last'.fired[i].destination = currentPage'
          /\ last'.fired[i].page = currentPage
          /\ last'.fired[i].lock = isScrolling]_vars

\* C5: goTo(currentPage) with the lock free is a no-op.
C5_GoToCurrentIsNoOp ==
  [][(last'.op = "goTo" /\ last'.target = currentPage /\ ~isScrolling)
       => Dropped]_vars

\* C6: a next() made less than duration after a next() that committed is
\* dropped (in SpecNextOnly every transition is committed by next()).
C6_SecondNextDropped ==
  [][(last'.op = "next" /\ sinceCommit < duration) => Dropped]_vars

\* C7: a next() or prev() made when no lock-release timer is pending moves the
\* page by +1 or -1, clamped to 0 .. count-1 (in SpecSeq these are the only
\* calls, so from page 0 the page is the clamped running sum).
C7_ClampedStep ==
  [][/\ last'.op = "next" => currentPage' = Min(currentPage + 1, count - 1)
     /\ last'.op = "prev" => currentPage' = Max(currentPage - 1, 0)]_vars

\* C8: a handler that commits a transition leaves the lock held with a timer
\* pending, and the lock is released later, with or without a render target.
C8_LockReleased ==
  /\ [](last.sched = 1 => (isScrolling /\ timers # <<>>))
  /\ (last.sched = 1 ~> ~isScrolling)

\* Without a render target, the last page has been reached and the lock is
\* free again with no timer left.
C8_Witness ==
  /\ ~innerRef
  /\ currentPage = count - 1
  /\ ~isScrolling
  /\ timers = <<>>

\* C9: the lock is free only when the last commit of currentPage is at least
\* duration old.
C9_LockHeldForDuration == ~isScrolling => sinceCommit >= duration

\* What goTo(page), called through the closures of the last render, does.
SameAsGoTo(page) ==
  IF Rejects(view, page)
  THEN Dropped
  ELSE /\ currentPage' = page
       /\ isScrolling' = TRUE
       /\ timers' = Append(timers, duration)
       /\ last'.fired = <<LeaveCall(view, page)>>
       /\ last'.sched = 1

\* C10: next() does what goTo(currentPage + 1) does and prev() what
\* goTo(currentPage - 1) does; next() on the last page and prev() on the first
\* do nothing.
C10_NextPrevAreGoTo ==
  [][/\ last'.op = "next" => SameAsGoTo(currentPage + 1)
     /\ last'.op = "prev" => SameAsGoTo(currentPage - 1)
     /\ (last'.op = "next" /\ currentPage = count - 1) => Dropped
     /\ (last'.op = "prev" /\ currentPage = 0) => Dropped]_vars

\* The step is the end of an active gesture.
GestureEnd ==
  /\ isDragging
  /\ last'.op \in {"touchEnd", "mouseUp"}

\* distance > 15% of the viewport, or velocity > 0.35 and distance > 30, with
\* distance = |liveDelta| and elapsed = max(1, end time - start time).
Committed ==
  LET distance == Abs(currentDelta)
      elapsed == Max(1, sinceStart * TickMs)
  IN  \/ distance * 100 > 15 * viewportSize * Scale
      \/ /\ distance * 100 > 35 * elapsed * Scale
         /\ distance > 30 * Scale

\* C11: a gesture end commits exactly when Committed; a committed gesture
\* advances to currentPage + 1 when liveDelta < 0 below the last page, retreats
\* to currentPage - 1 when liveDelta > 0 above the first page, and cancels
\* otherwise; an uncommitted gesture cancels and leaves the page as it is.
C11_GestureDecision ==
  [][GestureEnd =>
       IF Committed /\ currentDelta < 0 /\ currentPage < count - 1
       THEN currentPage' = currentPage + 1 /\ last'.sched = 1
       ELSE IF Committed /\ currentDelta > 0 /\ currentPage > 0
       THEN currentPage' = currentPage - 1 /\ last'.sched = 1
       ELSE Dropped]_vars

\* The gesture pulls toward a page that does not exist.
TowardExhaustedEdge(delta) ==
  \/ currentPage = 0 /\ delta > 0
  \/ currentPage = count - 1 /\ delta < 0

\* C12: a gesture that ends on page 0 with liveDelta > 0, or on page count-1
\* with liveDelta < 0, cancels: the page and the lock stay and onLeave is not
\* called.
C12_EdgePullCancels ==
  [][(GestureEnd /\ TowardExhaustedEdge(currentDelta)) => Dropped]_vars

\* The step is a frame callback that computes the offset of an active gesture.
FrameComputes ==
  /\ isDragging
  /\ isDragging'
  /\ innerRef
  /\ rafRef # <<>>
  /\ rafRef' = <<>>

\* C13: the frame callback sets liveDelta to 0.35 * d when d pulls toward a
\* page that does not exist, and to d otherwise, with d = coordinate - origin.
C13_ResistanceAtEdges ==
  [][FrameComputes =>
       LET d == AxisPos(latestDragPos) - startPos
       IN  currentDelta' = IF TowardExhaustedEdge(d) THEN 35 * d ELSE 100 * d]_vars

StartTypes == {"touchstart", "mousedown"}

MoveEndTypes == {"touchmove", "touchend", "mousemove", "mouseup"}

\* The step handles a gesture start that must be rejected: the lock is held or
\* the target is inside an interactive control.
RejectedStart ==
  /\ event'.type \in StartTypes
  /\ isScrolling \/ event'.interactive

\* The step handles a move or end event that follows a start which left no
\* gesture active.
AfterRejectedStart ==
  /\ event.type \in StartTypes
  /\ ~isDragging
  /\ event'.type \in MoveEndTypes

\* C14: a rejected gesture start leaves the gesture flag, the origin, the
\* timestamp, liveDelta and the transition duration as they are, and the move
\* and end events that follow it change nothing; a start that makes a gesture
\* active records the axis coordinate and the time and sets liveDelta to 0.
C14_RejectedStart ==
  [][/\ RejectedStart =>
          UNCHANGED <<isDragging, startPos, sinceStart, currentDelta,
                      transitionDuration>>
     /\ AfterRejectedStart => (UNCHANGED <<nav, drag, dom>> /\ Dropped)
     /\ (event'.type \in StartTypes /\ ~isDragging /\ isDragging') =>
          /\ startPos' = AxisPos(event'.point)
          /\ sinceStart' = 0
          /\ currentDelta' = 0]_vars

\* C15: no state has a gesture active and the lock held.
C15_GestureExcludesLock == ~(isDragging /\ isScrolling)

\* C16: while a gesture is active a wheel event or a key press changes neither
\* the page, the lock, the gesture state nor the pending frame, and calls no
\* onLeave.
C16_InputIgnoredWhileDragging ==
  [][(isDragging /\ event'.type \in {"wheel", "keydown"}) =>
       /\ UNCHANGED <<nav, drag>>
       /\ last'.fired = <<>>
       /\ last'.sched = 0]_vars

\* A gesture is active and the last event was a wheel event past the threshold,
\* handled by an unlocked closure on a page that has a next page.
C16_Witness ==
  /\ isDragging
  /\ event.type = "wheel"
  /\ WheelDelta(event.deltaX, event.deltaY) > wheelThreshold
  /\ ~view.isScrolling
  /\ ~isScrolling
  /\ currentPage < count - 1

\* The delta the claim selects from a wheel event.
SelectedDelta(e) ==
  IF isVertical THEN e.deltaY
  ELSE IF e.deltaX # 0 THEN e.deltaX ELSE e.deltaY

\* C17: with no gesture active and the lock free, a wheel event calls next()
\* once when its delta is above 30, prev() once when it is below -30 and
\* nothing in between; while the lock is held it makes no call.
C17_WheelThreshold ==
  [][event'.type = "wheel" =>
       LET d == SelectedDelta(event')
       IN  /\ (~isDragging /\ ~isScrolling /\ d > 30) =>
                last'.target = currentPage + 1
           /\ (~isDragging /\ ~isScrolling /\ d < -30) =>
                last'.target = currentPage - 1
           /\ (~isDragging /\ ~isScrolling /\ d >= -30 /\ d <= 30) =>
                last'.target = NoTarget
           /\ isScrolling => (last'.target = NoTarget /\ Dropped)]_vars

\* What a wheel event with the delta d does through the closures of the last
\* render, when no gesture is active.
WheelActsOn(d) ==
  IF view.isScrolling THEN last'.target = NoTarget
  ELSE IF d > 30 THEN last'.target = view.currentPage + 1
  ELSE IF d < -30 THEN last'.target = view.currentPage - 1
  ELSE last'.target = NoTarget

\* C18: a wheel event navigates by deltaY when the axis is vertical; when it is
\* horizontal, by deltaX if deltaX is not 0 and by deltaY if it is.
C18_WheelAxis ==
  [][(event'.type = "wheel" /\ ~isDragging) =>
       /\ isVertical => WheelActsOn(event'.deltaY)
       /\ (~isVertical /\ event'.deltaX # 0) => WheelActsOn(event'.deltaX)
       /\ (~isVertical /\ event'.deltaX = 0) => WheelActsOn(event'.deltaY)]_vars

\* Horizontal axis: deltaX = 30 won over deltaY = 31 and nothing was requested.
C18_Witness ==
  /\ ~isVertical
  /\ event.type = "wheel"
  /\ event.deltaX = 30
  /\ event.deltaY = 31
  /\ last.target = NoTarget
  /\ ~view.isScrolling

\* C19: ArrowDown, PageDown and Space call next() and ArrowUp and PageUp call
\* prev() on both axes; ArrowRight calls next() and ArrowLeft calls prev() on
\* the horizontal axis only; any other key calls nothing and changes nothing.
C19_KeyMap ==
  [][(event'.type = "keydown" /\ ~isDragging) =>
       LET key == event'.key
           toNext == {"ArrowDown", "PageDown", " "}
                       \cup (IF isVertical THEN {} ELSE {"ArrowRight"})
           toPrev == {"ArrowUp", "PageUp"}
                       \cup (IF isVertical THEN {} ELSE {"ArrowLeft"})
       IN  /\ key \in toNext => last'.target = view.currentPage + 1
           /\ key \in toPrev => last'.target = view.currentPage - 1
           /\ key \notin toNext \cup toPrev =>
                (last'.target = NoTarget /\ Dropped)]_vars

\* Vertical axis: ArrowRight was pressed on a page that has a next page, with
\* the lock free, and nothing was requested.
C19_Witness ==
  /\ isVertical
  /\ event.type = "keydown"
  /\ event.key = "ArrowRight"
  /\ last.target = NoTarget
  /\ ~view.isScrolling
  /\ ~isScrolling
  /\ currentPage < count - 1

\* C20: useFullPage called outside a FullPage throws and returns nothing;
\* called inside one it does not throw and returns the provider's value.
C20_UseFullPage ==
  event.type = "useFullPage" =>
    IF event.provider
    THEN ~event.result.threw /\ event.result.value = <<contextValue>>
    ELSE event.result.threw /\ event.result.value = <<>>

\* useFullPage was called outside a FullPage after the second page was
\* rendered.
C20_Witness ==
  /\ event.type = "useFullPage"
  /\ ~event.provider
  /\ view.currentPage = 1

\* C21: a published snapshot whose currentPage differs from that of the
\* snapshot before it has isScrolling = true.
C21_SnapshotConsistent ==
  [][contextValue'.currentPage # contextValue.currentPage =>
       contextValue'.isScrolling]_vars

\* The resisted delta of the coordinate x, measured from the origin.
ResistedDelta(x) ==
  LET d == x - startPos
  IN  IF TowardExhaustedEdge(d) THEN 35 * d ELSE 100 * d

\* C22: with the inner container mounted, the liveDelta that a gesture end
\* reads is the resisted delta of the last coordinate received, whether or not
\* the frame requested for it has run.
C22_EndReadsLastSample ==
  [][(GestureEnd /\ innerRef) =>
       currentDelta = ResistedDelta(AxisPos(latestDragPos))]_vars

\* The step handles a move sample of an active gesture.
MoveSample ==
  /\ isDragging
  /\ event'.type \in {"touchmove", "mousemove"}

\* C23: at most one frame update is pending; a move sample of an active
\* gesture stores its coordinate, requests a frame only if none is pending and
\* changes nothing else; the frame computes liveDelta and the offset from the
\* stored coordinate, with or without resistance.
C23_MovesCoalesced ==
  [][/\ Len(rafRef') <= 1
     /\ MoveSample =>
          /\ latestDragPos' = event'.point
          /\ rafRef # <<>> => rafRef' = rafRef
          /\ rafRef = <<>> => Len(rafRef') = 1
          /\ UNCHANGED <<nav, isDragging, startPos, sinceStart, currentDelta, dom>>
     /\ FrameComputes =>
          LET d == AxisPos(latestDragPos) - startPos
          IN  /\ currentDelta' \in {35 * d, 100 * d}
              /\ transform'.delta = currentDelta']_vars

\* A move sample has been stored while a frame was pending: the pending frame
\* was requested by a handler of an earlier render than the one that handled
\* the sample.
C23_Witness ==
  /\ isDragging
  /\ event.type = "touchmove"
  /\ rafRef # <<>>
  /\ rafRef[1] # view.currentPage
  /\ latestDragPos = event.point

\* The step handles a gesture start or a move sample, or runs a frame.
StartOrMove ==
  \/ event'.type \in StartTypes \cup {"touchmove", "mousemove"}
  \/ rafRef # <<>> /\ rafRef' = <<>> /\ isDragging'

\* C24: a gesture start, a move sample and a frame change neither the page nor
\* the lock, call no onLeave and schedule nothing; a gesture end makes at most
\* one request and changes the page by at most 1.
C24_OneRequestAtEnd ==
  [][/\ StartOrMove =>
          /\ UNCHANGED <<currentPage, isScrolling, timers>>
          /\ last'.fired = <<>>
          /\ last'.sched = 0
     /\ GestureEnd =>
          /\ Abs(currentPage' - currentPage) <= 1
          /\ Len(last'.fired) <= 1
          /\ last'.sched <= 1]_vars

\* C25: a gesture end that arrives while the lock is held commits nothing: the
\* page stays the target of the transition in flight, onLeave is not called
\* and no timer is scheduled.
C25_EndDroppedWhileLocked ==
  [][(GestureEnd /\ isScrolling) => Dropped]_vars

\* C26: with no gesture active and the render up to date, the offset of the
\* mounted inner container is the resting offset of currentPage.
C26_RestingOffset ==
  (~isDragging /\ innerRef /\ view = Snapshot) =>
    transform = Resting(currentPage)

\* C27: the transition duration of the mounted inner container is 0 exactly
\* while a gesture is active, and the configured duration otherwise.
C27_TransitionSuppressed ==
  innerRef =>
    /\ isDragging => transitionDuration = 0
    /\ ~isDragging => transitionDuration = duration

\* A gesture that moved the container has ended with a transition committed:
\* the duration is restored while the lock is held.
C27_Witness ==
  /\ innerRef
  /\ ~isDragging
  /\ currentDelta # 0
  /\ isScrolling
  /\ currentPage = 1
  /\ transitionDuration = duration

\* C28: at most one lock-release timer is pending.
C28_OneTimer == Len(timers) <= 1

\* The step is a goTo whose onLeave ran and called goTo(event'.page).
LeaveRan ==
  /\ last'.op = "goToInLeave"
  /\ last'.fired # <<>>

\* What the claim says of a goTo inside onLeave: an in-range page is processed
\* as a request of its own, with onLeave called again and a timer of its own;
\* an out-of-range page is not.
InnerProcessed ==
  IF event'.page \in 0 .. count - 1
  THEN /\ Len(last'.fired) = 2
       /\ last'.fired[2].destination = event'.page
       /\ last'.fired[2].origin = last'.fired[1].origin
       /\ last'.sched = 2
       /\ Len(timers') = Len(timers) + 2
  ELSE /\ Len(last'.fired) = 1
       /\ last'.sched = 1

\* C29: while onLeave runs the lock is free and currentPage is the origin, and
\* a goTo(t) made inside onLeave with t in range is processed as a request,
\* calling onLeave again.
C29_LeaveBeforeLock ==
  [][LeaveRan =>
       /\ ~last'.fired[1].lock
       /\ last'.fired[1].page = last'.fired[1].origin
       /\ InnerProcessed]_vars

\* C30: a gesture start on a non-interactive target, received while a gesture
\* is active and the lock is free, is accepted: the origin is the new
\* coordinate, the timestamp is now and liveDelta is 0.
C30_RestartAccepted ==
  [][(/\ event'.type \in StartTypes
      /\ ~event'.interactive
      /\ isDragging
      /\ ~isScrolling) =>
       /\ isDragging'
       /\ startPos' = AxisPos(event'.point)
       /\ latestDragPos' = event'.point
       /\ sinceStart' = 0
       /\ currentDelta' = 0]_vars

\* The step runs a frame callback: the pending frame is gone and the gesture
\* flag is as it was (a gesture end clears both).
FrameRuns ==
  /\ rafRef # <<>>
  /\ rafRef' = <<>>
  /\ isDragging' = isDragging

\* C31: a gesture end leaves no frame pending, so none is pending while no
\* gesture is active; a frame callback that runs with no gesture active
\* changes neither liveDelta nor the offset, and one that changes either runs
\* while a gesture is active.
C31_NoFrameAfterEnd ==
  [][/\ (isDragging /\ ~isDragging') => rafRef' = <<>>
     /\ ~isDragging' => rafRef' = <<>>
     /\ (FrameRuns /\ ~isDragging) => UNCHANGED <<currentDelta, transform>>
     /\ (FrameRuns /\ (currentDelta' # currentDelta \/ transform' # transform))
          => isDragging]_vars

\* A gesture has ended with the frame of its last move sample cancelled: the
\* sample lies off the origin and liveDelta is still the 0 of the start.
C31_Witness ==
  /\ ~isDragging
  /\ innerRef
  /\ rafRef = <<>>
  /\ latestDragPos # NoPos
  /\ AxisPos(latestDragPos) # startPos
  /\ currentDelta = 0

====
